---- MODULE Spec2Model ----
(***************************************************************************)
(* Model of the DexScreener gateway (src/main.py): a FastAPI application   *)
(* whose route handlers forward to one upstream REST API through the       *)
(* helper fetch_from_dexscreener, classify the upstream status, and        *)
(* truncate the `pairs` list of the returned payload.                      *)
(*                                                                         *)
(* Strings that the code slices or searches (JSON strings, response        *)
(* bodies) are sequences of character codes; strings that it only          *)
(* concatenates or looks up (path and query parameters, endpoint pieces)   *)
(* are TLA+ strings, and an f-string is the sequence of its pieces.        *)
(***************************************************************************)
EXTENDS Integers, Sequences, FiniteSets, TLC

\* ------------------------------------------------------------------------
\* Program constants
\* ------------------------------------------------------------------------

\* main.py:13
BASE_URL == "https://api.dexscreener.com/latest"

\* main.py:59 (and 77, 94, 123, 140, 175, 210): min(limit, 100)
MAX_LIMIT == 100

\* main.py:41: response.text[:200]
DETAIL_LIMIT == 200

\* main.py:50: Query(10, ...), the default of every `limit` parameter
DEFAULT_LIMIT == 10

\* main.py:148, 183: Query("1d", ...), the default of `period`
DEFAULT_PERIOD == "1d"

\* ------------------------------------------------------------------------
\* Bounds of the exploration
\* ------------------------------------------------------------------------

\* concurrent inbound requests in the concurrent specifications
NumClients == 2

\* short `pairs` lists have 0..SmallLen elements, small limits are 0..SmallLen
SmallLen == 3

\* lists and limits reach MAX_LIMIT + Over, bodies DETAIL_LIMIT + Over
Over == 2

\* negative limits are -NegLim..-1
NegLim == 2

\* ------------------------------------------------------------------------
\* Python values
\* ------------------------------------------------------------------------

\* the key "pairs" of a dict, and the str "pairs" as character codes
PairsKey == "pairs"

PairsChars == <<112, 97, 105, 114, 115>>

Min(a, b) == IF a <= b THEN a ELSE b

Max(a, b) == IF a >= b THEN a ELSE b

\* seq[:n] of Python: a negative n counts from the end
PySlice(seq, n) ==
    IF n >= 0
    THEN SubSeq(seq, 1, Min(n, Len(seq)))
    ELSE SubSeq(seq, 1, Max(Len(seq) + n, 0))

\* needle in haystack, for two str
IsSubstring(needle, haystack) ==
    \E i \in 0..(Len(haystack) - Len(needle)) :
        SubSeq(haystack, i + 1, i + Len(needle)) = needle

\* A value nested in a payload: kind, and its characters or elements (seq)
\* or its number (num); a value the code writes itself holds str literals
\* (names).
Leaf(kind, seq, num) == [kind |-> kind, seq |-> seq, num |-> num, names |-> <<>>]

LeafStr(s) == [kind |-> "string", seq |-> <<>>, num |-> 0, names |-> <<s>>]

LeafStrList(names) == [kind |-> "array", seq |-> <<>>, num |-> 0, names |-> names]

\* A top-level JSON value as response.json() returns it: a dict keeps its
\* members in order (members: <<[key, val]>>), a list its elements (elems),
\* a str its characters (text), a number or a bool its value (num).
JObject(members) ==
    [kind |-> "object", members |-> members, elems |-> <<>>, text |-> <<>>, num |-> 0]

JArray(elems) ==
    [kind |-> "array", members |-> <<>>, elems |-> elems, text |-> <<>>, num |-> 0]

JString(text) ==
    [kind |-> "string", members |-> <<>>, elems |-> <<>>, text |-> text, num |-> 0]

JNumber(n) ==
    [kind |-> "number", members |-> <<>>, elems |-> <<>>, text |-> <<>>, num |-> n]

JBool(b) ==
    [kind |-> "boolean", members |-> <<>>, elems |-> <<>>, text |-> <<>>,
     num |-> IF b THEN 1 ELSE 0]

JNull == [kind |-> "null", members |-> <<>>, elems |-> <<>>, text |-> <<>>, num |-> 0]

Member(key, val) == [key |-> key, val |-> val]

\* the positions of key among a dict's members (at most one)
KeyIndex(members, key) == {i \in 1..Len(members) : members[i].key = key}

HasKey(members, key) == KeyIndex(members, key) # {}

Lookup(members, key) == members[CHOOSE i \in KeyIndex(members, key) : TRUE].val

\* d[key] = val on a dict that holds key: the member keeps its place
Assign(members, key, val) ==
    [i \in 1..Len(members) |->
        IF members[i].key = key THEN Member(key, val) ELSE members[i]]

\* `"pairs" in result`: key membership on a dict, element membership on a
\* list, substring on a str, TypeError on int, float, bool and None
PairsIn(result) ==
    CASE result.kind = "object" ->
            IF HasKey(result.members, PairsKey) THEN "True" ELSE "False"
      [] result.kind = "array" ->
            IF \E i \in 1..Len(result.elems) :
                  result.elems[i].kind = "string" /\ result.elems[i].seq = PairsChars
            THEN "True" ELSE "False"
      [] result.kind = "string" ->
            IF IsSubstring(PairsChars, result.text) THEN "True" ELSE "False"
      [] OTHER -> "TypeError"

\* `result["pairs"]` is defined on a dict only: a list or a str indexed by a
\* str raises TypeError
CanIndexByKey(result) == result.kind = "object"

\* ------------------------------------------------------------------------
\* Upstream replies and handler outcomes
\* ------------------------------------------------------------------------

\* What requests.get ends with: a response (status_code, text, and whether
\* text parses as JSON and to what), or a raised requests.RequestException.
UpstreamResponse(status, text, parses, json) ==
    [kind |-> "response", status |-> status, text |-> text,
     parses |-> parses, json |-> json, err |-> <<>>]

UpstreamFailure(err) ==
    [kind |-> "RequestException", status |-> 0, text |-> <<>>,
     parses |-> FALSE, json |-> JNull, err |-> err]

\* f"{msg}{body}": a detail string is its literal piece and its inserted piece
Detail(msg, body) == [msg |-> msg, body |-> body]

\* a handler returns a value, which FastAPI sends with status 200
Return(payload) ==
    [kind |-> "return", status |-> 200, payload |-> payload, detail |-> Detail("", <<>>)]

\* raise HTTPException(status_code=status, detail=...)
HTTPException(status, detail) ==
    [kind |-> "HTTPException", status |-> status, payload |-> JNull, detail |-> detail]

\* any other exception leaves the handler unclassified; the server answers
\* it with its generic 500
Unhandled(exc) ==
    [kind |-> "exception", status |-> 500, payload |-> JNull, detail |-> Detail(exc, <<>>)]

\* str(e) of the exception response.json() raises on a body that is no JSON
JSONErrorText == <<69, 120, 112>>

\* fetch_classify with the JSON decode error swallowed: the body is returned raw
fetch_classify_SwallowBadJson(reply, jsonErrorIsRequestException) ==
    IF reply.kind = "RequestException"
    THEN HTTPException(500, Detail("Connection Error: ", reply.err))
    ELSE CASE reply.status = 200 ->
                Return(IF reply.parses THEN reply.json ELSE JString(reply.text))
           [] reply.status = 400 ->
                HTTPException(400, Detail("Bad Request: ", reply.text))
           [] reply.status = 429 ->
                HTTPException(429, Detail("Rate limit exceeded. Please try again later.", <<>>))
           [] OTHER ->
                HTTPException(reply.status,
                    Detail("Unexpected Error: ", PySlice(reply.text, DETAIL_LIMIT)))

\* fetch_classify without the [:200] of the unexpected-status detail
fetch_classify_NoDetailCut(reply, jsonErrorIsRequestException) ==
    IF reply.kind = "RequestException"
    THEN HTTPException(500, Detail("Connection Error: ", reply.err))
    ELSE CASE reply.status = 200 ->
                IF reply.parses
                THEN Return(reply.json)
                ELSE IF jsonErrorIsRequestException
                     THEN HTTPException(500, Detail("Connection Error: ", JSONErrorText))
                     ELSE Unhandled("JSONDecodeError")
           [] reply.status = 400 ->
                HTTPException(400, Detail("Bad Request: ", reply.text))
           [] reply.status = 429 ->
                HTTPException(429, Detail("Rate limit exceeded. Please try again later.", <<>>))
           [] OTHER ->
                HTTPException(reply.status, Detail("Unexpected Error: ", reply.text))

\* main.py:26-44, after requests.get has returned or raised.
\* response.json() raises a JSON decode error on a body that is no JSON; in
\* requests >= 2.27 that error is a requests.RequestException and is caught
\* by the except clause, in older releases it is a plain ValueError and is
\* not (jsonErrorIsRequestException says which library is installed).
\* The literal pieces of the details are written without their emoji.
fetch_classify(reply, jsonErrorIsRequestException) ==
    IF reply.kind = "RequestException"
    THEN HTTPException(500, Detail("Connection Error: ", reply.err))
    ELSE CASE reply.status = 200 ->
                IF reply.parses
                THEN Return(reply.json)
                ELSE IF jsonErrorIsRequestException
                     THEN HTTPException(500, Detail("Connection Error: ", JSONErrorText))
                     ELSE Unhandled("JSONDecodeError")
           [] reply.status = 400 ->
                HTTPException(400, Detail("Bad Request: ", reply.text))
           [] reply.status = 429 ->
                HTTPException(429, Detail("Rate limit exceeded. Please try again later.", <<>>))
           [] OTHER ->
                HTTPException(reply.status,
                    Detail("Unexpected Error: ", PySlice(reply.text, DETAIL_LIMIT)))

\* limit_pairs without the upper clamp min(limit, 100)
limit_pairs_NoCap(result, limit) ==
    IF PairsIn(result) = "TypeError" THEN Unhandled("TypeError")
    ELSE IF PairsIn(result) = "False" THEN Return(result)
    ELSE IF ~CanIndexByKey(result) THEN Unhandled("TypeError")
    ELSE LET pairs == Lookup(result.members, PairsKey) IN
         IF pairs.kind # "array" THEN Return(result)
         ELSE Return(JObject(Assign(result.members, PairsKey,
                  Leaf("array", PySlice(pairs.seq, limit), 0))))

\* main.py:58-61 (the same three lines close every truncating handler):
\*   if "pairs" in result and isinstance(result["pairs"], list):
\*       result["pairs"] = result["pairs"][:min(limit, 100)]
\*   return result
limit_pairs(result, limit) ==
    IF PairsIn(result) = "TypeError" THEN Unhandled("TypeError")
    ELSE IF PairsIn(result) = "False" THEN Return(result)
    ELSE IF ~CanIndexByKey(result) THEN Unhandled("TypeError")
    ELSE LET pairs == Lookup(result.members, PairsKey) IN
         IF pairs.kind # "array" THEN Return(result)
         ELSE Return(JObject(Assign(result.members, PairsKey,
                  Leaf("array", PySlice(pairs.seq, Min(limit, MAX_LIMIT)), 0))))

\* ------------------------------------------------------------------------
\* Route handlers
\* ------------------------------------------------------------------------

\* An inbound request: its route and the path and query parameters FastAPI
\* hands to the handler (those the route does not declare stay at "").
\* A query parameter is given with a value or absent.
NoChain == [given |-> FALSE, value |-> ""]

Chain(value) == [given |-> TRUE, value |-> value]

NoPeriod == [given |-> FALSE, value |-> ""]

Period(value) == [given |-> TRUE, value |-> value]

NoLimit == [given |-> FALSE, value |-> 0]

Limit(value) == [given |-> TRUE, value |-> value]

Request(route, tokenAddress, dexId, pairAddress, query, chain, period, limit) ==
    [route |-> route, tokenAddress |-> tokenAddress, dexId |-> dexId,
     pairAddress |-> pairAddress, query |-> query, chain |-> chain,
     period |-> period, limit |-> limit]

\* `if chain:` is false for None (main.py:109: an absent chain is None) and
\* for the empty str
Truthy(chain) == chain.given /\ chain.value # ""

\* main.py:50 (68, 85, 110, 131, 149, 184): limit = Query(10, ...)
limit_param(r) == IF r.limit.given THEN r.limit.value ELSE DEFAULT_LIMIT

\* main.py:148, 183: period = Query("1d", ...)
period_param(r) == IF r.period.given THEN r.period.value ELSE DEFAULT_PERIOD

\* d.get(key, default)
DictGet(d, key, default) == IF key \in DOMAIN d THEN d[key] ELSE default

\* main.py:15-17
home == JObject(<<Member("message", LeafStr("DexScreener API is running!")),
                  Member("version", LeafStr("1.0.0"))>>)

\* main.py:55
get_pairs_by_token_endpoint(r) == <<"/dex/search?q=", r.tokenAddress>>

\* main.py:73
get_pairs_by_dex_and_token_endpoint(r) == <<"/dex/pairs/", r.dexId, "/", r.tokenAddress>>

\* main.py:90
get_pairs_by_dex_endpoint(r) == <<"/dex/pairs/", r.dexId>>

\* main.py:104
get_pair_by_address_endpoint(r) == <<"/dex/pairs/", r.pairAddress>>

\* the endpoint with `if chain is not None` in place of `if chain`
get_trending_pairs_endpoint_AlwaysSuffix(r) ==
    LET endpoint == <<"/dex/pairs/trending">> IN
    IF r.chain.given THEN endpoint \o <<"/", r.chain.value>> ELSE endpoint

\* main.py:115-117
get_trending_pairs_endpoint(r) ==
    LET endpoint == <<"/dex/pairs/trending">> IN
    IF Truthy(r.chain) THEN endpoint \o <<"/", r.chain.value>> ELSE endpoint

\* main.py:136
search_pairs_endpoint(r) == <<"/dex/search?q=", r.query>>

\* main.py:155-162
get_top_gainers_period_map ==
    ("1h" :> "h1") @@ ("6h" :> "h6") @@ ("24h" :> "h24") @@ ("1d" :> "h24")
    @@ ("7d" :> "d7") @@ ("30d" :> "d30")

\* main.py:164
get_top_gainers_dex_period(period) == DictGet(get_top_gainers_period_map, period, "h24")

\* main.py:166-169
get_top_gainers_endpoint(r) ==
    LET endpoint == <<"/dex/gainers/", get_top_gainers_dex_period(period_param(r))>> IN
    IF Truthy(r.chain) THEN endpoint \o <<"/", r.chain.value>> ELSE endpoint

\* the period map with 7d sent as h24
get_top_losers_period_map_Weekly ==
    ("1h" :> "h1") @@ ("6h" :> "h6") @@ ("24h" :> "h24") @@ ("1d" :> "h24")
    @@ ("7d" :> "h24") @@ ("30d" :> "d30")

\* main.py:190-197
get_top_losers_period_map ==
    ("1h" :> "h1") @@ ("6h" :> "h6") @@ ("24h" :> "h24") @@ ("1d" :> "h24")
    @@ ("7d" :> "d7") @@ ("30d" :> "d30")

\* main.py:199
get_top_losers_dex_period(period) == DictGet(get_top_losers_period_map, period, "h24")

\* main.py:201-204
get_top_losers_endpoint(r) ==
    LET endpoint == <<"/dex/losers/", get_top_losers_dex_period(period_param(r))>> IN
    IF Truthy(r.chain) THEN endpoint \o <<"/", r.chain.value>> ELSE endpoint

\* main.py:220-225
CHAINS ==
    <<"ethereum", "bsc", "polygon", "avalanche", "fantom", "arbitrum",
      "celo", "harmony", "cronos", "optimism", "moonriver", "moonbeam",
      "metis", "aurora", "kava", "base", "linea", "mantle", "zksync",
      "scroll", "bnbchain", "solana", "polygon_zkevm", "arbitrum_nova">>

\* get_chains with the last chain of the list lost
get_chains_Short == JObject(<<Member("chains", LeafStrList(SubSeq(CHAINS, 1, Len(CHAINS) - 1)))>>)

\* main.py:215-225
get_chains == JObject(<<Member("chains", LeafStrList(CHAINS))>>)

LocalRoutes == {"home", "chains"}

TruncatingRoutes == {"token", "dex_token", "dex", "trending", "search", "gainers", "losers"}

ForwardingRoutes == TruncatingRoutes \cup {"address"}

\* the value a handler that calls nothing returns
LocalResult(r) == IF r.route = "home" THEN home ELSE get_chains

\* the endpoint each forwarding handler passes to fetch_from_dexscreener
Endpoint(r) ==
    CASE r.route = "token" -> get_pairs_by_token_endpoint(r)
      [] r.route = "dex_token" -> get_pairs_by_dex_and_token_endpoint(r)
      [] r.route = "dex" -> get_pairs_by_dex_endpoint(r)
      [] r.route = "address" -> get_pair_by_address_endpoint(r)
      [] r.route = "trending" -> get_trending_pairs_endpoint(r)
      [] r.route = "search" -> search_pairs_endpoint(r)
      [] r.route = "gainers" -> get_top_gainers_endpoint(r)
      [] r.route = "losers" -> get_top_losers_endpoint(r)

\* main.py:21: url = f"{BASE_URL}{endpoint}"
Url(endpoint) == <<BASE_URL>> \o endpoint

\* what a forwarding handler does with what fetch_from_dexscreener gave:
\* an exception passes through the handler, get_pair_by_address returns the
\* value as it is (main.py:104), every other handler limits its pairs
Respond(r, fetched) ==
    IF fetched.kind # "return" THEN fetched
    ELSE IF r.route = "address" THEN fetched
    ELSE limit_pairs(fetched.payload, limit_param(r))

\* ------------------------------------------------------------------------
\* Inputs
\* ------------------------------------------------------------------------

Limits ==
    {NoLimit} \cup
    {Limit(l) : l \in (-NegLim..SmallLen) \cup ((MAX_LIMIT - 1)..(MAX_LIMIT + Over))}

PairLens == (0..SmallLen) \cup ((MAX_LIMIT - 1)..(MAX_LIMIT + Over))

\* n pair objects, told apart by their number, in one of two orders
PairList(n, reversed) == [i \in 1..n |-> IF reversed THEN n + 1 - i ELSE i]

PairLists == {PairList(n, rev) : n \in PairLens, rev \in BOOLEAN}

SchemaVersion == Member("schemaVersion", Leaf("string", <<49>>, 0))

\* payloads with a list-typed pairs field, before or after another field
PairsPayloads ==
    {JObject(<<SchemaVersion, Member(PairsKey, Leaf("array", l, 0))>>) : l \in PairLists}
    \cup {JObject(<<Member(PairsKey, Leaf("array", l, 0)), SchemaVersion>>) :
             l \in {PairList(n, FALSE) : n \in 0..SmallLen}}

\* dicts without a pairs key, or whose pairs is no list
NoPairsObjects ==
    {JObject(<<>>), JObject(<<SchemaVersion>>),
     JObject(<<Member("pair", Leaf("object", <<>>, 1))>>)}
    \cup {JObject(<<SchemaVersion, Member(PairsKey, v)>>) :
            v \in {Leaf("null", <<>>, 0), Leaf("string", PairsChars, 0),
                   Leaf("number", <<>>, 5), Leaf("object", <<>>, 1)}}

\* payloads that are no dict
NonObjects ==
    {JArray(<<>>), JArray(<<Leaf("number", <<>>, 1)>>),
     JArray(<<Leaf("number", <<>>, 1), Leaf("string", PairsChars, 0)>>),
     JString(<<>>), JString(<<111, 107>>), JString(PairsChars),
     JString(<<120>> \o PairsChars \o <<121>>),
     JNumber(5), JBool(TRUE), JNull}

Payloads == PairsPayloads \cup NoPairsObjects \cup NonObjects

\* a body of n characters
Body(n) == [i \in 1..n |-> 97 + (i % 26)]

Bodies == {Body(n) : n \in {0, SmallLen, DETAIL_LIMIT, DETAIL_LIMIT + Over}}

OtherStatuses == {201, 204, 401, 404, 500, 503}

TransportErrors == {<<114, 101, 102, 117, 115, 101, 100>>, <<116, 105, 109, 101, 111, 117, 116>>}

Replies ==
    {UpstreamResponse(200, <<>>, TRUE, j) : j \in Payloads}
    \cup {UpstreamResponse(200, b, FALSE, JNull) : b \in {Body(0), Body(SmallLen)}}
    \cup {UpstreamResponse(s, b, FALSE, JNull) : s \in {400, 429} \cup OtherStatuses, b \in Bodies}
    \cup {UpstreamFailure(e) : e \in TransportErrors}

Periods ==
    {NoPeriod} \cup
    {Period(p) : p \in {"1h", "6h", "24h", "1d", "7d", "30d", "", "h1", "d7", "1w"}}

Chains == {NoChain, Chain(""), Chain("ethereum"), Chain("notachain")}

Addresses == {"0xabc", "WETH"}

\* the requests FastAPI can hand to the handlers
Requests ==
    {Request("home", "", "", "", "", NoChain, NoPeriod, NoLimit),
     Request("chains", "", "", "", "", NoChain, NoPeriod, NoLimit)}
    \cup {Request("token", a, "", "", "", NoChain, NoPeriod, l) : a \in Addresses, l \in Limits}
    \cup {Request("dex_token", a, "uniswap", "", "", NoChain, NoPeriod, l) :
            a \in Addresses, l \in Limits}
    \cup {Request("dex", "", "uniswap", "", "", NoChain, NoPeriod, l) : l \in Limits}
    \cup {Request("address", "", "", a, "", NoChain, NoPeriod, NoLimit) : a \in Addresses}
    \cup {Request("trending", "", "", "", "", c, NoPeriod, l) : c \in Chains, l \in Limits}
    \cup {Request("search", "", "", "", q, NoChain, NoPeriod, l) : q \in Addresses, l \in Limits}
    \cup {Request(rt, "", "", "", "", c, p, l) :
            rt \in {"gainers", "losers"}, c \in Chains, p \in Periods, l \in Limits}

\* every route called with its optional query parameters absent
DefaultRequests ==
    {Request("home", "", "", "", "", NoChain, NoPeriod, NoLimit),
     Request("chains", "", "", "", "", NoChain, NoPeriod, NoLimit),
     Request("token", "WETH", "", "", "", NoChain, NoPeriod, NoLimit),
     Request("dex_token", "WETH", "uniswap", "", "", NoChain, NoPeriod, NoLimit),
     Request("dex", "", "uniswap", "", "", NoChain, NoPeriod, NoLimit),
     Request("address", "", "", "0xabc", "", NoChain, NoPeriod, NoLimit),
     Request("trending", "", "", "", "", NoChain, NoPeriod, NoLimit),
     Request("search", "", "", "", "WETH", NoChain, NoPeriod, NoLimit),
     Request("gainers", "", "", "", "", NoChain, NoPeriod, NoLimit),
     Request("losers", "", "", "", "", NoChain, NoPeriod, NoLimit)}

\* one upstream reply of each kind the helper tells apart
BasicReplies ==
    {UpstreamResponse(200, <<>>, TRUE,
         JObject(<<SchemaVersion, Member(PairsKey, Leaf("array", PairList(SmallLen, FALSE), 0))>>)),
     UpstreamResponse(200, Body(SmallLen), FALSE, JNull),
     UpstreamResponse(400, Body(SmallLen), FALSE, JNull),
     UpstreamResponse(429, Body(SmallLen), FALSE, JNull),
     UpstreamResponse(503, Body(SmallLen), FALSE, JNull),
     UpstreamFailure(<<116, 105, 109, 101, 111, 117, 116>>)}

\* ------------------------------------------------------------------------
\* The server
\* ------------------------------------------------------------------------

Clients == 1..NumClients

NoRequest == Request("", "", "", "", "", NoChain, NoPeriod, NoLimit)

NoReply == [kind |-> "none", status |-> 0, text |-> <<>>, parses |-> FALSE,
            json |-> JNull, err |-> <<>>]

NoResponse == [kind |-> "none", status |-> 0, payload |-> JNull, detail |-> Detail("", <<>>)]

VARIABLES
    jsonErrorIsRequestException, \* the installed requests: is its JSON decode error a RequestException
    pc,         \* per inbound request: "idle", "queued", "blocked" (in requests.get), "done"
    req,        \* per inbound request: what was asked
    loop,       \* the request whose handler holds the event loop's only thread, or 0
    upstream,   \* per outbound call: "responsive" or "hanging" ("none": not called)
    outbound,   \* the outbound requests sent so far: <<[client, url]>>
    reply,      \* per inbound request: what requests.get ended with
    fetched,    \* per inbound request: what fetch_from_dexscreener returned or raised
    resp        \* per inbound request: the response sent

vars == <<jsonErrorIsRequestException, pc, req, loop, upstream, outbound, reply, fetched, resp>>

Init ==
    /\ jsonErrorIsRequestException \in BOOLEAN
    /\ pc = [c \in Clients |-> "idle"]
    /\ req = [c \in Clients |-> NoRequest]
    /\ loop = 0
    /\ upstream = [c \in Clients |-> "none"]
    /\ outbound = <<>>
    /\ reply = [c \in Clients |-> NoReply]
    /\ fetched = [c \in Clients |-> NoResponse]
    /\ resp = [c \in Clients |-> NoResponse]

\* the server accepts an inbound request; its handler waits for the event loop
Arrive(c, requests) ==
    /\ pc[c] = "idle"
    /\ \E r \in requests : req' = [req EXCEPT ![c] = r]
    /\ pc' = [pc EXCEPT ![c] = "queued"]
    /\ UNCHANGED <<jsonErrorIsRequestException, loop, upstream, outbound, reply, fetched, resp>>

\* home and get_chains run to their return on the event loop
ServeLocal(c) ==
    /\ pc[c] = "queued"
    /\ loop = 0
    /\ req[c].route \in LocalRoutes
    /\ resp' = [resp EXCEPT ![c] = Return(LocalResult(req[c]))]
    /\ pc' = [pc EXCEPT ![c] = "done"]
    /\ UNCHANGED <<jsonErrorIsRequestException, req, loop, upstream, outbound, reply, fetched>>

\* CallUpstream with the request sent a second time (a retry)
CallUpstream_Retry(c) ==
    /\ pc[c] = "queued"
    /\ loop = 0
    /\ req[c].route \in ForwardingRoutes
    /\ outbound' = outbound \o << [client |-> c, url |-> Url(Endpoint(req[c]))],
                                  [client |-> c, url |-> Url(Endpoint(req[c]))] >>
    /\ loop' = c
    /\ \E u \in {"responsive", "hanging"} : upstream' = [upstream EXCEPT ![c] = u]
    /\ pc' = [pc EXCEPT ![c] = "blocked"]
    /\ UNCHANGED <<jsonErrorIsRequestException, req, reply, fetched, resp>>

\* a forwarding handler runs on the event loop up to requests.get
\* (main.py:27), a blocking call made inside a coroutine: the loop's thread
\* stays inside it until the upstream answers, which it may never do (no
\* timeout is passed)
CallUpstream(c) ==
    /\ pc[c] = "queued"
    /\ loop = 0
    /\ req[c].route \in ForwardingRoutes
    /\ outbound' = Append(outbound, [client |-> c, url |-> Url(Endpoint(req[c]))])
    /\ loop' = c
    /\ \E u \in {"responsive", "hanging"} : upstream' = [upstream EXCEPT ![c] = u]
    /\ pc' = [pc EXCEPT ![c] = "blocked"]
    /\ UNCHANGED <<jsonErrorIsRequestException, req, reply, fetched, resp>>

\* requests.get returns or raises; the handler runs to its end (the status
\* classification and the truncation) and gives the event loop back
Complete(c, replies) ==
    /\ pc[c] = "blocked"
    /\ upstream[c] = "responsive"
    /\ \E rp \in replies :
        /\ reply' = [reply EXCEPT ![c] = rp]
        /\ fetched' = [fetched EXCEPT ![c] = fetch_classify(rp, jsonErrorIsRequestException)]
        /\ resp' = [resp EXCEPT ![c] =
                      Respond(req[c], fetch_classify(rp, jsonErrorIsRequestException))]
    /\ loop' = 0
    /\ pc' = [pc EXCEPT ![c] = "done"]
    /\ UNCHANGED <<jsonErrorIsRequestException, req, upstream, outbound>>

\* One inbound request at a time, over every input.
Next ==
    \/ Arrive(1, Requests)
    \/ ServeLocal(1)
    \/ CallUpstream(1)
    \/ Complete(1, Replies)

Spec == Init /\ [][Next]_vars

\* Concurrent inbound requests.
ConcNext ==
    \E c \in Clients :
        \/ Arrive(c, DefaultRequests)
        \/ ServeLocal(c)
        \/ CallUpstream(c)
        \/ Complete(c, BasicReplies)

ConcSpec == Init /\ [][ConcNext]_vars

\* The event loop runs a handler that is ready, and an upstream that answers
\* does answer.
LiveSpec ==
    /\ ConcSpec
    /\ \A c \in Clients : WF_vars(ServeLocal(c)) /\ WF_vars(CallUpstream(c))
    /\ \A c \in Clients : WF_vars(Complete(c, BasicReplies))

\* ------------------------------------------------------------------------
\* Properties
\* ------------------------------------------------------------------------

Min3(a, b, c) == Min(a, Min(b, c))

\* request c was answered on a truncating route after an upstream 200 whose
\* body parsed
Truncated200(c) ==
    /\ pc[c] = "done"
    /\ req[c].route \in TruncatingRoutes
    /\ reply[c].kind = "response"
    /\ reply[c].status = 200
    /\ reply[c].parses

\* the payload is a dict with a list-typed pairs field
HasPairsList(j) ==
    /\ j.kind = "object"
    /\ \E i \in 1..Len(j.members) : j.members[i].key = "pairs" /\ j.members[i].val.kind = "array"

\* the elements of the list-typed pairs field of a dict
PairsOf(j) ==
    j.members[CHOOSE i \in 1..Len(j.members) : j.members[i].key = "pairs"].val.seq

\* the limit the handler of request c worked with
LimitOf(c) == IF req[c].limit.given THEN req[c].limit.value ELSE 10

\* the outbound requests sent for request c
OutboundOf(c) == {i \in 1..Len(outbound) : outbound[i].client = c}

\* C1: on every truncating route, with a limit <= 0 and an upstream 200
\* whose pairs is a list, the returned pairs list is empty.
C1_NonPositiveLimitGivesEmpty ==
    \A c \in Clients :
        (Truncated200(c) /\ HasPairsList(reply[c].json) /\ LimitOf(c) <= 0)
        => /\ resp[c].kind = "return"
           /\ HasPairsList(resp[c].payload)
           /\ PairsOf(resp[c].payload) = <<>>

\* C2: on every truncating route, with a limit >= 0 and an upstream 200
\* whose pairs is the list P, the returned pairs is the first
\* min(limit, 100, len(P)) elements of P in order, and every other top-level
\* field is returned as it came, in its place.
C2_PrefixOfPairs ==
    \A c \in Clients :
        (Truncated200(c) /\ HasPairsList(reply[c].json) /\ LimitOf(c) >= 0)
        => LET in == reply[c].json
               out == resp[c].payload
               k == Min3(LimitOf(c), MAX_LIMIT, Len(PairsOf(in)))
           IN /\ resp[c].kind = "return"
              /\ resp[c].status = 200
              /\ out.kind = "object"
              /\ Len(out.members) = Len(in.members)
              /\ \A i \in 1..Len(in.members) :
                    /\ out.members[i].key = in.members[i].key
                    /\ in.members[i].key # "pairs" => out.members[i] = in.members[i]
                    /\ in.members[i].key = "pairs" =>
                          /\ out.members[i].val.kind = "array"
                          /\ Len(out.members[i].val.seq) = k
                          /\ \A n \in 1..k :
                                out.members[i].val.seq[n] = in.members[i].val.seq[n]
              /\ LimitOf(c) <= MAX_LIMIT =>
                    Len(PairsOf(out)) = Min(LimitOf(c), Len(PairsOf(in)))
              /\ Len(PairsOf(out)) <= MAX_LIMIT

\* a limit above 100 met a list longer than 100, and 100 pairs came back
C2_Witness ==
    \E c \in Clients :
        /\ Truncated200(c) /\ HasPairsList(reply[c].json)
        /\ LimitOf(c) > MAX_LIMIT
        /\ Len(PairsOf(reply[c].json)) > MAX_LIMIT
        /\ resp[c].kind = "return"
        /\ Len(PairsOf(resp[c].payload)) = MAX_LIMIT
        /\ Len(resp[c].payload.members) > 1

\* C3: the forwarding helper maps an upstream 200 (with a body that parses)
\* to success with the parsed body, 400 to status 400 with the raw body in
\* the detail, 429 to status 429 with one fixed message, any other status s
\* to status s with at most the first 200 characters of the body, and a
\* transport failure to status 500 with the error's description.
C3_StatusMapping ==
    \A c \in Clients :
        (pc[c] = "done" /\ req[c].route \in ForwardingRoutes)
        => LET rp == reply[c]
               f == fetched[c]
           IN /\ rp.kind \in {"response", "RequestException"}
              /\ rp.kind = "RequestException" =>
                    /\ f.kind = "HTTPException" /\ f.status = 500
                    /\ f.detail.body = rp.err
              /\ (rp.kind = "response" /\ rp.status = 200 /\ rp.parses) =>
                    /\ f.kind = "return" /\ f.payload = rp.json
              /\ (rp.kind = "response" /\ rp.status = 400) =>
                    /\ f.kind = "HTTPException" /\ f.status = 400
                    /\ f.detail.body = rp.text
              /\ (rp.kind = "response" /\ rp.status = 429) =>
                    /\ f.kind = "HTTPException" /\ f.status = 429
                    /\ f.detail = [msg |-> "Rate limit exceeded. Please try again later.",
                                   body |-> <<>>]
              /\ (rp.kind = "response" /\ rp.status \notin {200, 400, 429}) =>
                    /\ f.kind = "HTTPException" /\ f.status = rp.status
                    /\ Len(f.detail.body) = Min(Len(rp.text), DETAIL_LIMIT)
                    /\ \A n \in 1..Len(f.detail.body) : f.detail.body[n] = rp.text[n]
              /\ (f.kind # "return") => resp[c] = f

\* a 204 with a body of more than 200 characters was raised as a 204 whose
\* detail holds 200 of them
C3_Witness ==
    \E c \in Clients :
        /\ pc[c] = "done"
        /\ reply[c].kind = "response" /\ reply[c].status = 204
        /\ Len(reply[c].text) > DETAIL_LIMIT
        /\ fetched[c].status = 204
        /\ Len(fetched[c].detail.body) = DETAIL_LIMIT

\* C4: while the upstream call of one request hangs, every other request is
\* still eventually answered (or reaches its own hanging upstream call).
C4_OthersEventuallyAnswered ==
    \A c \in Clients :
        (pc[c] = "queued") ~> (pc[c] = "done" \/ upstream[c] = "hanging")

C6_OneOutboundOneOutcome ==
    /\ \A c \in Clients :
          /\ pc[c] \in {"idle", "queued"} => OutboundOf(c) = {} /\ resp[c] = NoResponse
          /\ pc[c] = "blocked" => Cardinality(OutboundOf(c)) = 1 /\ resp[c] = NoResponse
          /\ (pc[c] = "done" /\ req[c].route \in ForwardingRoutes) =>
                Cardinality(OutboundOf(c)) = 1
          /\ (pc[c] = "done" /\ req[c].route \in LocalRoutes) => OutboundOf(c) = {}
          /\ pc[c] = "done" =>
                \/ resp[c].kind = "return" /\ resp[c].status = 200
                \/ resp[c].kind \in {"HTTPException", "exception"} /\ resp[c].payload = JNull
    /\ Len(outbound) =
          Cardinality({c \in Clients : pc[c] \in {"blocked", "done"}
                                         /\ req[c].route \in ForwardingRoutes})

\* two forwarding requests were answered, one with a payload and one with an
\* error
C6_Witness ==
    \E c, d \in Clients :
        /\ pc[c] = "done" /\ pc[d] = "done"
        /\ req[c].route \in ForwardingRoutes /\ req[d].route \in ForwardingRoutes
        /\ resp[c].kind = "return"
        /\ resp[d].kind = "HTTPException"
        /\ Len(outbound) = 2

\* C7: on every truncating route, an upstream 200 whose payload has no
\* list-typed top-level pairs field (a dict without the key or with another
\* type under it, or an array, a string, a number, a boolean, null) is
\* answered with that payload unchanged.
C7_NoPairsListUnchanged ==
    \A c \in Clients :
        (Truncated200(c) /\ ~HasPairsList(reply[c].json))
        => /\ resp[c].kind = "return"
           /\ resp[c].payload = reply[c].json

PeriodToken(p) ==
    CASE p = "1h" -> "h1"
      [] p = "6h" -> "h6"
      [] p = "24h" -> "h24"
      [] p = "1d" -> "h24"
      [] p = "7d" -> "d7"
      [] p = "30d" -> "d30"
      [] OTHER -> "h24"

\* C9: on /pairs/gainers and /pairs/losers the period token of the upstream
\* endpoint is 1h->h1, 6h->h6, 24h->h24, 1d->h24, 7d->d7, 30d->d30 and h24
\* for every other string; an absent period gives what 1d gives; both routes
\* give the same token for the same period.
C9_PeriodMapping ==
    \A i \in 1..Len(outbound) :
        LET r == req[outbound[i].client]
            url == outbound[i].url
        IN r.route \in {"gainers", "losers"} =>
              /\ url[1] = "https://api.dexscreener.com/latest"
              /\ url[2] = (IF r.route = "gainers" THEN "/dex/gainers/" ELSE "/dex/losers/")
              /\ url[3] = (IF r.period.given THEN PeriodToken(r.period.value)
                           ELSE PeriodToken("1d"))

\* /pairs/losers was called with period 7d and d7 was sent upstream
C9_Witness ==
    \E i \in 1..Len(outbound) :
        /\ req[outbound[i].client].route = "losers"
        /\ req[outbound[i].client].period = [given |-> TRUE, value |-> "7d"]
        /\ outbound[i].url[3] = "d7"

\* the period token in the endpoint of request r
url_period(r) == IF r.period.given THEN PeriodToken(r.period.value) ELSE PeriodToken("1d")

\* the endpoint of a chain-taking route without its chain suffix
ChainlessUrl(r) ==
    CASE r.route = "trending" -> <<"https://api.dexscreener.com/latest", "/dex/pairs/trending">>
      [] r.route = "gainers" ->
            <<"https://api.dexscreener.com/latest", "/dex/gainers/", url_period(r)>>
      [] r.route = "losers" ->
            <<"https://api.dexscreener.com/latest", "/dex/losers/", url_period(r)>>

\* C10 as stated: the outbound endpoint carries the /{chain} suffix whenever
\* a chain query parameter is given, and is the no-chain variant exactly
\* when none is given.
C10_SuffixWheneverGiven ==
    \A i \in 1..Len(outbound) :
        LET r == req[outbound[i].client]
            url == outbound[i].url
        IN r.route \in {"trending", "gainers", "losers"} =>
              /\ r.chain.given => url = ChainlessUrl(r) \o <<"/", r.chain.value>>
              /\ (url = ChainlessUrl(r)) <=> ~r.chain.given

\* C10 as amended: the outbound endpoint carries the /{chain} suffix, with
\* the chain value as given, whenever a non-empty chain query parameter is
\* given, and is the no-chain variant exactly when chain is absent or empty.
C10_SuffixWhenNonEmpty ==
    \A i \in 1..Len(outbound) :
        LET r == req[outbound[i].client]
            url == outbound[i].url
        IN r.route \in {"trending", "gainers", "losers"} =>
              /\ (r.chain.given /\ r.chain.value # "") =>
                    url = ChainlessUrl(r) \o <<"/", r.chain.value>>
              /\ (url = ChainlessUrl(r)) <=> (~r.chain.given \/ r.chain.value = "")

\* /pairs/trending was called with a chain no list knows and the chain went
\* upstream as given
C10_Witness ==
    \E i \in 1..Len(outbound) :
        /\ req[outbound[i].client].route = "trending"
        /\ req[outbound[i].client].chain = [given |-> TRUE, value |-> "notachain"]
        /\ outbound[i].url = <<"https://api.dexscreener.com/latest", "/dex/pairs/trending",
                               "/", "notachain">>
====
